---- MODULE Spec2Model ----
(***************************************************************************)
(* Model of the Grafana MCP OAuth wrapper (the gateway): the Hono route    *)
(* table of index.ts, the backend supervisor and forwarder of              *)
(* grafana-mcp-http-proxy.ts (GrafanaMcpHttpProxy) and the envelope        *)
(* wrapper of custom-tool-handler.ts (CustomToolHandler).                  *)
(*                                                                         *)
(* Texts (HTTP bodies, header values) are sequences of tokens, so that     *)
(* trim(), startsWith(), includes(), JSON.stringify() and JSON.parse() are *)
(* computed rather than assumed.  Token "sp" is a whitespace character,    *)
(* "{" and "}" are the braces, "ISID" is the substring                     *)
(* 'Invalid session ID', "txt" is any other run of plain text.  A JSON     *)
(* member is its key token followed by its value token(s).                 *)
(***************************************************************************)
EXTENDS Integers, Sequences, FiniteSets, TLC

\* ------------------------------------------------------------------ bounds
\* Number of inbound requests the gateway handles at the same time.
MaxReq == 2
\* Number of backend processes the gateway may spawn in one run.
MaxSpawn == 2
\* Calls of establishSession in a run.
MaxCalls == 2

\* ------------------------------------------------- program constants
\* waitForServer: const maxRetries = 10
maxRetries == 10

\* const mcpTransport = process.env.MCP_TRANSPORT: the http transport, where
\* grafanaProxy is a GrafanaMcpHttpProxy.
mcpTransport == "http"

\* ------------------------------------------------------------ text helpers
RECURSIVE TrimStart(_)
\* String.prototype.trim(), leading part.
TrimStart(s) ==
    IF s # <<>> /\ Head(s) = "sp" THEN TrimStart(Tail(s)) ELSE s

RECURSIVE TrimEnd(_)
\* String.prototype.trim(), trailing part.
TrimEnd(s) ==
    IF s # <<>> /\ s[Len(s)] = "sp" THEN TrimEnd(SubSeq(s, 1, Len(s) - 1)) ELSE s

\* String.prototype.trim()
Trim(s) == TrimEnd(TrimStart(s))

\* String.prototype.startsWith(tok) for a one-token prefix.
StartsWith(s, tok) == s # <<>> /\ Head(s) = tok

\* String.prototype.includes(tok) for a one-token needle.
Includes(s, tok) == \E k \in 1..Len(s) : s[k] = tok

\* JavaScript truthiness of a string: the empty string is falsy.
TruthyText(s) == s # <<>>

\* ------------------------------------------------------------- JSON values
\* Values an envelope id can take: the numbers 0 and 7, null, the empty
\* string, and "undef" for a member that is absent (undefined).
IdValues == {"n0", "n7", "null", "s_empty", "undef"}

\* JavaScript truthiness of an id value (the left operand of `id || 1`).
Truthy(v) == v \notin {"n0", "null", "s_empty", "undef"}

\* JSON.stringify of one member: an undefined value drops the member.
Member(key, v) == IF v = "undef" THEN <<>> ELSE <<key, v>>

\* The value of the top-level member `key` of a parsed body; "undef" when the
\* member is absent.
Get(body, key) ==
    IF \E k \in 1..(Len(body) - 1) : body[k] = key
    THEN body[(CHOOSE k \in 1..(Len(body) - 1) :
                 body[k] = key /\ \A j \in 1..(k - 1) : body[j] # key) + 1]
    ELSE "undef"

\* Whether the object text `body` has a member `key`.
Has(body, key) == Includes(body, key)

\* A character of a text as it appears inside a JSON string literal.
QTok(t) ==
    CASE t = "sp" -> "q_sp"
      [] t = "txt" -> "q_txt"
      [] t = "{" -> "q_{"
      [] t = "}" -> "q_}"
      [] t = "ISID" -> "q_ISID"
      [] OTHER -> "q_other"

\* JSON.stringify of a string value: the text, quoted.
Quote(s) == [k \in 1..Len(s) |-> QTok(s[k])]

\* The characters a string literal stands for (JSON.parse of a string value).
UnQTok(t) ==
    CASE t = "q_sp" -> "sp"
      [] t = "q_txt" -> "txt"
      [] t = "q_{" -> "{"
      [] t = "q_}" -> "}"
      [] t = "q_ISID" -> "ISID"
      [] OTHER -> t

QuotedToks == {"q_sp", "q_txt", "q_{", "q_}", "q_ISID", "q_other"}

RECURSIVE TakeQuoted(_)
\* The longest prefix of s made of string-literal characters.
TakeQuoted(s) ==
    IF s # <<>> /\ Head(s) \in QuotedToks
    THEN <<UnQTok(Head(s))>> \o TakeQuoted(Tail(s))
    ELSE <<>>

\* The string value of member `key` of an object text (the empty text when the
\* member is absent).
GetText(body, key) ==
    IF \E k \in 1..Len(body) : body[k] = key
    THEN LET k == CHOOSE k \in 1..Len(body) :
                      body[k] = key /\ \A j \in 1..(k - 1) : body[j] # key
         IN  TakeQuoted(SubSeq(body, k + 1, Len(body)))
    ELSE <<>>

\* responseBody.includes('Invalid session ID'): the substring counts wherever
\* it stands, also inside a JSON string of the body.
IncludesInvalidSession(s) == Includes(s, "ISID") \/ Includes(s, "q_ISID")

\* JSON.parse succeeds on an object text: braces around members, optional
\* surrounding whitespace, no bare text between the braces.
ParsesAsJson(body) ==
    LET t == Trim(body)
    IN  /\ Len(t) >= 2
        /\ Head(t) = "{"
        /\ t[Len(t)] = "}"
        /\ \A k \in 2..(Len(t) - 1) : t[k] \notin {"txt", "{", "}", "ISID"}

\* The tool names of a catalog: the tokens between "[" and "]".
ToolsOf(body) ==
    IF Includes(body, "[") /\ Includes(body, "]")
    THEN LET a == CHOOSE k \in 1..Len(body) : body[k] = "["
             b == CHOOSE k \in 1..Len(body) : body[k] = "]"
         IN  SubSeq(body, a + 1, b - 1)
    ELSE <<>>

\* ------------------------------------------------------- HTTP vocabulary
\* Authorization header values: absent, a non-Bearer scheme, Bearer with a
\* token the validator accepts, and Bearer with tokens it rejects: expired,
\* signed with another key, both, issued by or for someone else, not a token.
NoHeader == <<>>
AuthHeaders ==
    {NoHeader, <<"Basic ", "cred">>, <<"Bearer ", "expired">>, <<"Bearer ", "good">>,
     <<"Bearer ", "badsig">>, <<"Bearer ", "expired_badsig">>,
     <<"Bearer ", "wrong_iss">>, <<"Bearer ", "wrong_aud">>, <<"Bearer ", "garbage">>}

\* What decoding a token text yields: whether it is a well-formed token, and
\* for a well-formed one whether its signature verifies against the issuer's
\* keys, whether its validity window has passed, and whether its issuer and
\* audience are the expected ones.
TokenFacts(token) ==
    LET t == IF token = <<>> THEN "garbage" ELSE Head(token)
    IN  [wellFormed |-> t # "garbage",
         signatureOk |-> t \notin {"badsig", "expired_badsig", "garbage"},
         expired |-> t \in {"expired", "expired_badsig"},
         issuerOk |-> t \notin {"wrong_iss", "garbage"},
         audienceOk |-> t \notin {"wrong_aud", "garbage"}]

\* The kinds of AuthError.
AuthErrorKinds == {"Missing", "Malformed", "Expired", "SignatureInvalid", "InsufficientScope"}

\* validate without the check of the expiry.
Validate_IgnoresExpiry(token) ==
    LET f == TokenFacts(token)
    IN  IF token = <<>> THEN {"Missing"}
        ELSE IF ~f.wellFormed THEN {"Malformed"}
        ELSE IF ~f.signatureOk THEN {"SignatureInvalid"}
        ELSE IF ~f.issuerOk \/ ~f.audienceOk THEN AuthErrorKinds
        ELSE {"ok"}

\* validate(token): the results it may give, "ok" or the kind of its
\* AuthError.  The signature is verified and the expiry checked, in no stated
\* order, so a token with both defects fails with either kind; then issuer
\* and audience are matched, for whose mismatch no kind is stated.  The
\* gateway configures no required scope.
Validate(token) ==
    LET f == TokenFacts(token)
    IN  IF token = <<>> THEN {"Missing"}
        ELSE IF ~f.wellFormed THEN {"Malformed"}
        ELSE IF ~f.signatureOk \/ f.expired
        THEN {k \in {"SignatureInvalid", "Expired"} :
                \/ k = "SignatureInvalid" /\ ~f.signatureOk
                \/ k = "Expired" /\ f.expired}
        ELSE IF ~f.issuerOk \/ ~f.audienceOk THEN AuthErrorKinds
        ELSE {"ok"}

\* OAuthValidator.validateToken(token): resolves for a token that verifies,
\* rejects otherwise.
validateToken(token) == Validate(token) = {"ok"}

\* !authHeader || !authHeader.startsWith('Bearer ')
MissingOrMalformed(authHeader) ==
    ~TruthyText(authHeader) \/ ~StartsWith(authHeader, "Bearer ")

\* authHeader.substring(7): the header without its 'Bearer ' prefix.
TokenOf(authHeader) == Tail(authHeader)

\* The bearer check of a route: the header is well formed and its token
\* validates.
Authenticated(authHeader) ==
    ~MissingOrMalformed(authHeader) /\ validateToken(TokenOf(authHeader))

NoResp == [status |-> 0, body |-> <<>>]
NoReply == [fail |-> FALSE, status |-> 0, body |-> <<>>, ctype |-> <<>>]

\* Response.ok
Ok(status) == status >= 200 /\ status <= 299

\* c.json(obj, status) for the error objects of index.ts.
JsonError(status, error, description) ==
    [status |-> status,
     body |-> <<"{", "error", error, "error_description", description, "}">>]

\* ------------------------------------------------------------ route table
\* The routes of index.ts in registration order.  Hono runs the first
\* matching handler; a middleware passes on to the next matching route only
\* by calling next().
Routes ==
    << [verb |-> "GET", pattern |-> "/health", h |-> "health"],
       [verb |-> "GET", pattern |-> "/.well-known/oauth-protected-resource",
        h |-> "wellknown"],
       [verb |-> "GET", pattern |-> "/", h |-> "get_root"],
       [verb |-> "POST", pattern |-> "/", h |-> "post_root"],
       [verb |-> "DELETE", pattern |-> "/", h |-> "delete_root"],
       [verb |-> "GET", pattern |-> "/health", h |-> "health_2"],
       [verb |-> "GET", pattern |-> "/.well-known/oauth-protected-resource",
        h |-> "wellknown_2"],
       [verb |-> "ALL", pattern |-> "/*", h |-> "auth_middleware"],
       [verb |-> "GET", pattern |-> "/", h |-> "get_root_2"],
       [verb |-> "POST", pattern |-> "/", h |-> "post_root_2"],
       [verb |-> "DELETE", pattern |-> "/", h |-> "delete_root_2"] >>

Paths == {"/", "/health", "/.well-known/oauth-protected-resource", "/tools"}
Verbs == {"GET", "POST", "DELETE"}

\* Whether a route is selected for a request.
Matches(route, verb, path) ==
    /\ route.verb \in {verb, "ALL"}
    /\ route.pattern \in {path, "/*"}

\* c.req.path.endsWith('/health') || c.req.path.includes('/.well-known/')
SkipsAuth(path) == path \in {"/health", "/.well-known/oauth-protected-resource"}

RECURSIVE Resolve(_, _, _, _)
\* The handler that answers a request: the first matching route from index k
\* on; the auth middleware answers itself (401) unless the request passes it.
Resolve(k, verb, path, authHeader) ==
    IF k > Len(Routes) THEN "not_found"
    ELSE IF ~Matches(Routes[k], verb, path)
         THEN Resolve(k + 1, verb, path, authHeader)
    ELSE IF Routes[k].h # "auth_middleware" THEN Routes[k].h
    ELSE IF SkipsAuth(path) \/ Authenticated(authHeader)
         THEN Resolve(k + 1, verb, path, authHeader)
    ELSE "middleware_401"

\* ------------------------------------------------------------- envelopes
\* JSON-RPC methods of inbound envelopes; "initialize" stands for every method
\* the gateway does not single out.
RpcMethods == {"tools/list", "tools/call", "initialize", "query_datasource"}

\* JSON.parse of a number: a double.  An integer beyond 2^53 that no double
\* holds becomes its nearest double (9007199254740993 -> 9007199254740992),
\* which JSON.stringify then writes.
ParseNumber(v) == IF v = "n9007199254740993" THEN "n9007199254740992" ELSE v

\* c.req.json(): the envelope the handlers see, parsed from the inbound body.
ParseEnvelope(e) == [e EXCEPT !.id = ParseNumber(@)]

\* params.name of an inbound tools/call ("undef": absent).
ToolNames ==
    {"undef", "query_datasource", "list_datasources_detailed", "search_dashboards"}

NoEnv == [method |-> "-", id |-> "undef", name |-> "undef"]

Envelopes ==
    {e \in [method : RpcMethods, id : IdValues, name : ToolNames] :
        e.name # "undef" => e.method = "tools/call"}

\* mcp-session-id request header: absent, empty, or a value.
SidValues == {"undef", "", "s1"}

\* JavaScript truthiness of a header value.
TruthyHeader(v) == v \notin {"undef", ""}

\* Only one of the two local tools is recognised.
isCustomTool_QueryOnly(method) == method = "query_datasource"

\* CustomToolHandler.isCustomTool
isCustomTool(method) ==
    method = "query_datasource" \/ method = "list_datasources_detailed"

\* The names of the customTools array of the tools/list handler, in order.
CustomToolNames == <<"list_datasources_detailed", "query_datasource">>

\* ------------------------------------------------- GrafanaMcpHttpProxy, pure
\* A retry on every 400, whatever the body says.
NeedsRetry_Any400(rep) == rep.status = 400

\* handleMcpRequest: the reply is an invalid-session rejection.
NeedsRetry(rep) == rep.status = 400 /\ IncludesInvalidSession(rep.body)

\* The conversion applied to every non-2xx reply with a body.
ShouldSynthesize_EveryError(rep) ==
    /\ ~Ok(rep.status)
    /\ TruthyText(rep.body)

\* handleMcpRequest: the reply is a plain text error to be converted.
ShouldSynthesize(rep) ==
    /\ ~Ok(rep.status)
    /\ TruthyText(rep.body)
    /\ ~StartsWith(Trim(rep.body), "{")

\* The id member of the synthesized error: requestBody.id || 1.
SynthesizedId(id) == IF Truthy(id) THEN id ELSE "n1"

\* The converted reply without its error member.
SynthesizedError_NoError(env, rep) ==
    [status |-> 200,
     body |-> <<"{", "jsonrpc", "2.0">> \o Member("id", SynthesizedId(env.id))
              \o <<"}">>]

\* handleMcpRequest: the JSON-RPC error built from a plain text reply.
SynthesizedError(env, rep) ==
    [status |-> 200,
     body |-> <<"{", "jsonrpc", "2.0">> \o Member("id", SynthesizedId(env.id))
              \o <<"error", "code", "-32603", "message", "Internal error", "data">>
              \o Quote(Trim(rep.body)) \o <<"}">>]

\* new Response(body, {status, ...}): the backend's reply as it is.
PassThrough(rep) == [status |-> rep.status, body |-> rep.body]

\* handleMcpRequest: what a first reply that is not retried turns into.
ProxyResponse(env, rep) ==
    IF ShouldSynthesize(rep) THEN SynthesizedError(env, rep) ELSE PassThrough(rep)

\* handleMcpRequest: the mcp-session-id header of the first POST.
SessionHeader(sid) == IF TruthyHeader(sid) THEN sid ELSE "undef"

\* ------------------------------------------------------- index.ts, pure
\* grafanaData of the tools/list handler: the parsed reply, or an empty
\* catalog when JSON.parse throws.
GrafanaData(text) ==
    IF ParsesAsJson(text) THEN Trim(text) ELSE <<"{", "result", "tools", "[", "]", "}">>

\* The tools/list handler, after handleMcpRequest returned `pr`.
ToolsListResponse(env, pr) ==
    LET data == GrafanaData(pr.body)
    IN  IF Has(data, "result") /\ Has(data, "tools")
        THEN [status |-> 200,
              body |-> <<"{", "jsonrpc", "2.0">> \o Member("id", env.id)
                       \o <<"result", "tools", "[">> \o ToolsOf(data)
                       \o CustomToolNames \o <<"]", "}">>]
        ELSE [status |-> 200, body |-> data]

\* Catch blocks that answer with an empty result.
CaughtResponse_Swallows(kind) ==
    [status |-> 200, body |-> <<"{", "jsonrpc", "2.0", "result", "}">>]

\* The catch blocks of the POST handler: the inner one of tools/list, the
\* outer one of the route.
CaughtResponse(kind) ==
    IF kind = "list"
    THEN JsonError(500, "internal_error", "Failed to combine tools")
    ELSE JsonError(500, "internal_error", "Failed to process MCP request")

\* The POST handler, after handleMcpRequest returned `pr`.
RouteResponse(kind, env, pr) ==
    IF kind = "list" THEN ToolsListResponse(env, pr) ELSE pr

\* ------------------------------------------------ CustomToolHandler, pure
\* An object is the list of its members <<key, value>> in insertion order; a
\* value is the list of the tokens of its JSON text.
\* obj[key] = val: an existing member keeps its place and takes the value, a
\* new one goes last.
Assign(obj, key, val) ==
    IF \E k \in 1..Len(obj) : obj[k][1] = key
    THEN [k \in 1..Len(obj) |-> IF obj[k][1] = key THEN <<key, val>> ELSE obj[k]]
    ELSE Append(obj, <<key, val>>)

RECURSIVE Spread(_, _)
\* {...obj, ...src}: the members of src assigned in order.
Spread(obj, src) ==
    IF src = <<>> THEN obj
    ELSE Spread(Assign(obj, Head(src)[1], Head(src)[2]), Tail(src))

\* obj[key], <<"undef">> when there is no such member.
Lookup(obj, key) ==
    IF \E k \in 1..Len(obj) : obj[k][1] = key
    THEN obj[CHOOSE k \in 1..Len(obj) : obj[k][1] = key][2]
    ELSE <<"undef">>

\* The arguments of a tool call without arguments: body.params.arguments || {}.
NoTimeRange == [present |-> FALSE, from |-> "undef", to |-> "undef"]
NoArgs ==
    [datasourceUid |-> "undef", query |-> <<>>, timeRange |-> NoTimeRange,
     maxDataPoints |-> "undef"]

\* JavaScript truthiness of a string member and of a number member.
TruthyString(v) == v \notin {"undef", ""}
TruthyNumber(v) == v \notin {"undef", "0"}

\* queryDatasource: the one entry of queryRequest.queries, built by the object
\* literal { datasource, ...query, refId, ...timeRange, ...maxDataPoints }.
QueryEntry(params) ==
    LET first == <<<<"datasource", Member("uid", params.datasourceUid)>>>>
        withQuery == Spread(first, params.query)
        withRef == Assign(withQuery, "refId", <<"A">>)
        tr == params.timeRange
        withRange ==
            IF tr.present
            THEN Assign(withRef, "timeRange",
                        <<"from", IF TruthyString(tr.from) THEN tr.from ELSE "now-1h",
                          "to", IF TruthyString(tr.to) THEN tr.to ELSE "now">>)
            ELSE withRef
    IN  IF TruthyNumber(params.maxDataPoints)
        THEN Assign(withRange, "maxDataPoints", <<params.maxDataPoints>>)
        ELSE withRange

\* No request to the upstream API.
NoUpstream == [verb |-> "-", url |-> "-", queries |-> <<>>]

\* The fetch of a custom tool: the bulk query endpoint with the single query,
\* or the datasource listing.
UpstreamRequest(method, params) ==
    IF method = "query_datasource"
    THEN [verb |-> "POST", url |-> "/api/ds/query", queries |-> <<QueryEntry(params)>>]
    ELSE [verb |-> "GET", url |-> "/api/datasources", queries |-> <<>>]

StatusTok(status) ==
    CASE status = 200 -> "200"
      [] status = 400 -> "400"
      [] status = 401 -> "401"
      [] status = 404 -> "404"
      [] status = 500 -> "500"
      [] OTHER -> "0"

\* The text each tool puts before the upstream status in its Error.
FailurePrefix(method) ==
    IF method = "query_datasource"
    THEN "Grafana query failed:"
    ELSE "Failed to fetch datasources:"

\* handleCustomTool without its catch block: a failure of the upstream call
\* reaches the catch of the route.
CustomToolResponse_Rethrows(request, up) ==
    IF up.fail \/ ~Ok(up.status) \/ ~ParsesAsJson(up.body)
    THEN JsonError(500, "internal_error", "Failed to process MCP request")
    ELSE [status |-> 200,
          body |-> <<"{", "jsonrpc", "2.0">> \o Member("id", request.id)
                   \o <<"result", "content", "}">>]

\* handleCustomTool: the envelope for one upstream outcome, sent by c.json.
\* A non-2xx reply and a failed fetch both end in the catch block.
CustomToolResponse(request, up) ==
    LET head == <<"{", "jsonrpc", "2.0">> \o Member("id", request.id)
        message ==
            IF up.fail THEN <<"fetch failed">>
            ELSE IF ~Ok(up.status)
                 THEN <<FailurePrefix(request.method), StatusTok(up.status)>>
                      \o Quote(up.body)
            ELSE <<"Unexpected token">>
        threw == up.fail \/ ~Ok(up.status) \/ ~ParsesAsJson(up.body)
    IN  [status |-> 200,
         body |-> IF threw
                  THEN head \o <<"error", "code", "-1", "message">> \o message
                       \o <<"data", "{}", "}">>
                  ELSE head \o <<"result", "content", "}">>]

\* ------------------------------------------------------------------ state
VARIABLES
    up,             \* the gateway process runs (FALSE after process.exit)
    mcpProcess,     \* GrafanaMcpHttpProxy.mcpProcess: 0 (null) or a pid
    isInitialized,  \* GrafanaMcpHttpProxy.isInitialized
    proc,           \* pid -> "none" | "alive" | "exited" | "failed"
    killed,         \* pids whose ChildProcess.killed is set (kill() was called)
    reqs,           \* slot -> the inbound request handled in it
    sessionId,      \* GrafanaMcpHttpProxy.sessionId: 0 (null), or c for the
                    \* identifier read from the stream of call c
    sseConnection,  \* GrafanaMcpHttpProxy.sseConnection: 0 (null), or c for
                    \* the AbortController call c created
    calls,          \* call of establishSession -> its promise, stream, timer
    shutdownSteps   \* what the SIGTERM handler did, in order

vars == <<up, mcpProcess, isInitialized, proc, killed, reqs,
          sessionId, sseConnection, calls, shutdownSteps>>

Slots == 1..MaxReq
Pids == 1..MaxSpawn
CallIds == 1..MaxCalls

\* A call of establishSession that was not made.  st: the promise ("pending",
\* "resolved", "rejected"); stream: the fetch and its body ("connecting",
\* "open", "refused", "failed", "ended", "errored", "aborted"); timer: the
\* 10 s timeout is armed.
NoCall == [st |-> "none", stream |-> "none", timer |-> FALSE]

\* An empty slot.  i: waitForServer's loop counter (0 outside the loop, the
\* number of attempts made when the loop gave up); spawns, probed, custom:
\* what handling the request did; sent: what the gateway sent to the backend
\* for the request, in order; reply1, reply2: the backend's replies to the
\* forwarded POSTs; args: body.params.arguments; upsent, upstream: the request a
\* custom tool sent to the Grafana API and its outcome; inbound: the envelope
\* of the inbound body as the caller wrote it, env: what it parses to.
Idle ==
    [pc |-> "idle", verb |-> "-", path |-> "-", accept |-> FALSE, auth |-> NoHeader,
     env |-> NoEnv, sid |-> "undef", kind |-> "-", h |-> "-", i |-> 0,
     validated |-> FALSE, spawns |-> 0, probed |-> FALSE, custom |-> FALSE,
     sent |-> <<>>, reply1 |-> NoReply, reply2 |-> NoReply, resp |-> NoResp,
     args |-> NoArgs, upsent |-> NoUpstream, upstream |-> NoReply,
     inbound |-> NoEnv]

Init ==
    /\ up = TRUE
    /\ mcpProcess = 0
    /\ isInitialized = FALSE
    /\ proc = [p \in Pids |-> "none"]
    /\ killed = {}
    /\ reqs = [r \in Slots |-> Idle]
    /\ sessionId = 0
    /\ sseConnection = 0
    /\ calls = [c \in CallIds |-> NoCall]
    /\ shutdownSteps = <<>>

\* A request ends with response `resp`.
Done(q, resp) == [q EXCEPT !.pc = "done", !.resp = resp]

\* Some backend process listens: only then is a connection answered.
SomeAlive == \E p \in Pids : proc[p] = "alive"

\* ------------------------------------------------------- route handlers
\* app.get(basePath + '/')
GetRoot(q) ==
    IF q.accept
    THEN Done(q, [status |-> 200, body |-> <<"sse_established">>])
    ELSE Done(q, [status |-> 200,
                  body |-> <<"{", "server", "grafana-mcp-oauth-wrapper", "status",
                             "ready", "}">>])

\* The POST route without the return in the catch of validateToken.
PostRoot_IgnoresValidation(q) ==
    IF MissingOrMalformed(q.auth)
    THEN Done(q, JsonError(401, "unauthorized",
                           "Missing or invalid authorization header"))
    ELSE IF q.env.method = "tools/call" /\ TruthyHeader(q.env.name)
            /\ isCustomTool(q.env.name)
    THEN [q EXCEPT !.validated = TRUE, !.kind = "custom", !.pc = "custom",
                   !.custom = TRUE,
                   !.upsent = UpstreamRequest(q.env.name, q.args)]
    ELSE IF q.env.method = "tools/list"
    THEN [q EXCEPT !.validated = TRUE, !.kind = "list", !.pc = "ensure"]
    ELSE [q EXCEPT !.validated = TRUE, !.kind = "plain", !.pc = "ensure"]

\* app.post(basePath + '/'), up to its first call that leaves the route.
PostRoot(q) ==
    IF MissingOrMalformed(q.auth)
    THEN Done(q, JsonError(401, "unauthorized",
                           "Missing or invalid authorization header"))
    ELSE IF ~validateToken(TokenOf(q.auth))
    THEN Done(q, JsonError(401, "unauthorized", "Invalid or expired access token"))
    ELSE IF q.env.method = "tools/call" /\ TruthyHeader(q.env.name)
            /\ isCustomTool(q.env.name)
    THEN [q EXCEPT !.validated = TRUE, !.kind = "custom", !.pc = "custom",
                   !.custom = TRUE,
                   !.upsent = UpstreamRequest(q.env.name, q.args)]
    ELSE IF q.env.method = "tools/list"
    THEN [q EXCEPT !.validated = TRUE, !.kind = "list", !.pc = "ensure"]
    ELSE [q EXCEPT !.validated = TRUE, !.kind = "plain", !.pc = "ensure"]

\* Values of MCP_TRANSPORT other than 'http': the default and any other.
OtherTransports == {"stdio", "sse"}

\* The DELETE handler forwarding without the session header.
DeleteRootIn_DropsSession(transport, q) ==
    IF transport = "http"
    THEN [q EXCEPT !.pc = "del",
                   !.sent = <<[verb |-> "DELETE", sid |-> "undef", env |-> NoEnv]>>]
    ELSE Done(q, [status |-> 400, body |-> <<"{", "error", "not_supported", "}">>])

\* app.delete(basePath + '/') under a transport mode, up to its fetch.
DeleteRootIn(transport, q) ==
    IF transport = "http"
    THEN [q EXCEPT !.pc = "del",
                   !.sent = <<[verb |-> "DELETE", sid |-> SessionHeader(q.sid),
                               env |-> NoEnv]>>]
    ELSE Done(q, [status |-> 400, body |-> <<"{", "error", "not_supported", "}">>])

\* app.delete(basePath + '/'), up to its fetch.
DeleteRoot(q) == DeleteRootIn(mcpTransport, q)

\* The route handlers with a health handler that reports the backend: 503
\* unless the supervisor is Ready.
Handle_HealthChecksBackend(h, q) ==
    CASE h = "health" ->
           Done(q, [status |-> IF isInitialized THEN 200 ELSE 503,
                    body |-> <<"{", "status", "healthy", "transport", mcpTransport,
                               "}">>])
      [] h = "wellknown" ->
           Done(q, [status |-> 200,
                    body |-> <<"{", "resource", "authorization_servers",
                               "scopes_supported", "bearer_methods_supported", "}">>])
      [] h = "get_root" -> GetRoot(q)
      [] h = "post_root" -> PostRoot(q)
      [] h = "delete_root" -> DeleteRoot(q)
      [] h = "middleware_401" ->
           Done(q, JsonError(401, "invalid_token",
                             IF MissingOrMalformed(q.auth)
                             THEN "Missing or invalid authorization header"
                             ELSE "Token validation failed"))
      [] OTHER -> Done(q, [status |-> 404, body |-> <<"txt">>])

\* The routes a request can be answered by; the second registrations of the
\* same verb and path come after the first ones and are never selected.
Handle(h, q) ==
    CASE h = "health" ->
           Done(q, [status |-> 200,
                    body |-> <<"{", "status", "healthy", "transport", mcpTransport,
                               "}">>])
      [] h = "wellknown" ->
           Done(q, [status |-> 200,
                    body |-> <<"{", "resource", "authorization_servers",
                               "scopes_supported", "bearer_methods_supported", "}">>])
      [] h = "get_root" -> GetRoot(q)
      [] h = "post_root" -> PostRoot(q)
      [] h = "delete_root" -> DeleteRoot(q)
      [] h = "middleware_401" ->
           Done(q, JsonError(401, "invalid_token",
                             IF MissingOrMalformed(q.auth)
                             THEN "Missing or invalid authorization header"
                             ELSE "Token validation failed"))
      [] OTHER -> Done(q, [status |-> 404, body |-> <<"txt">>])

Answering == {"health", "wellknown", "get_root", "post_root", "delete_root",
              "middleware_401", "not_found"}

\* An inbound request arrives and its route runs up to the first await on the
\* backend or on the upstream API.
Receive(r, in) ==
    /\ up
    /\ reqs[r].pc = "idle"
    /\ LET h == Resolve(1, in.verb, in.path, in.auth)
           q == [Idle EXCEPT !.verb = in.verb, !.path = in.path,
                             !.accept = in.accept, !.auth = in.auth,
                             !.inbound = in.env, !.env = ParseEnvelope(in.env),
                             !.sid = in.sid, !.h = h,
                             !.args = in.args]
       IN  /\ h \in Answering
           /\ reqs' = [reqs EXCEPT ![r] = Handle(h, q)]
    /\ UNCHANGED <<up, mcpProcess, isInitialized, proc, killed>>
    /\ UNCHANGED <<sessionId, sseConnection, calls, shutdownSteps>>

\* --------------------------------------------- GrafanaMcpHttpProxy, actions
\* String.prototype.toLowerCase() on a content-type value.
Lower(s) ==
    [k \in 1..Len(s) |->
        IF s[k] = "TEXT/EVENT-STREAM" THEN "text/event-stream" ELSE s[k]]

Failure == [fail |-> TRUE, status |-> 0, body |-> <<>>, ctype |-> <<>>]

Reply(status, body) ==
    [fail |-> FALSE, status |-> status, body |-> body, ctype |-> <<>>]

\* waitForServer, the POST probe: 2xx, or 400 with 'Invalid session ID'.
PostReady(res) ==
    /\ ~res.fail
    /\ \/ Ok(res.status)
       \/ res.status = 400 /\ IncludesInvalidSession(res.body)

\* The GET probe without the test of the status.
GetReady_AnyStatus(sse) ==
    /\ ~sse.fail
    /\ Includes(Lower(sse.ctype), "text/event-stream")

\* waitForServer, the GET probe: 200 with an event-stream content type.
GetReady(sse) ==
    /\ ~sse.fail
    /\ sse.status = 200
    /\ Includes(Lower(sse.ctype), "text/event-stream")

\* The next unused pid.
NextPid == CHOOSE p \in Pids : proc[p] = "none" /\ \A o \in 1..(p - 1) : proc[o] # "none"

\* handleMcpRequest: the first POST to the backend, with the session header
\* when the inbound request had one.
FirstPost(q) ==
    [q EXCEPT !.pc = "fwd1",
              !.sent = Append(@, [verb |-> "POST", sid |-> SessionHeader(q.sid),
                                  env |-> q.env])]

\* The guard with the test of killed turned around.
AlreadyRunning_KilledHandle == isInitialized /\ mcpProcess # 0 /\ mcpProcess \in killed

\* initializeMcpServer's guard: nothing to do.
AlreadyRunning == isInitialized /\ mcpProcess # 0 /\ mcpProcess \notin killed

\* handleMcpRequest enters initializeMcpServer: either the backend counts as
\* running and the request is forwarded, or a process is spawned and
\* waitForServer starts.
InitializeMcpServer(r) ==
    /\ up
    /\ reqs[r].pc = "ensure"
    /\ IF AlreadyRunning
       THEN /\ reqs' = [reqs EXCEPT ![r] = FirstPost(@)]
            /\ UNCHANGED <<mcpProcess, proc>>
       ELSE /\ \E p \in Pids : proc[p] = "none"
            /\ proc' = [proc EXCEPT ![NextPid] = "alive"]
            /\ mcpProcess' = NextPid
            /\ reqs' = [reqs EXCEPT ![r].pc = "probing", ![r].i = 0,
                                    ![r].spawns = @ + 1]
    /\ UNCHANGED <<up, isInitialized, killed>>
    /\ UNCHANGED <<sessionId, sseConnection, calls, shutdownSteps>>

\* waitForServer with the loop condition i <= maxRetries.
ProbeAttempt_OneMore(r, res, sse) ==
    /\ up
    /\ reqs[r].pc = "probing"
    /\ reqs[r].i <= maxRetries
    /\ (~res.fail \/ ~sse.fail) => SomeAlive
    /\ IF PostReady(res) \/ GetReady(sse)
       THEN /\ isInitialized' = TRUE
            /\ reqs' = [reqs EXCEPT ![r] =
                          FirstPost([@ EXCEPT !.i = 0, !.probed = TRUE])]
       ELSE /\ isInitialized' = isInitialized
            /\ reqs' = [reqs EXCEPT ![r] =
                          IF @.i = maxRetries
                          THEN Done([@ EXCEPT !.i = @ + 1, !.probed = TRUE],
                                    CaughtResponse(@.kind))
                          ELSE [@ EXCEPT !.i = @ + 1, !.probed = TRUE]]
    /\ UNCHANGED <<up, mcpProcess, proc, killed>>
    /\ UNCHANGED <<sessionId, sseConnection, calls, shutdownSteps>>

\* One iteration of waitForServer's loop: the POST probe, the GET probe when
\* the POST probe did not confirm, the sleep.  A confirmed probe ends
\* initializeMcpServer (isInitialized = true) and the request is forwarded; the
\* last failed iteration throws 'MCP server failed to start'.
ProbeAttempt(r, res, sse) ==
    /\ up
    /\ reqs[r].pc = "probing"
    /\ reqs[r].i < maxRetries
    /\ (~res.fail \/ ~sse.fail) => SomeAlive
    /\ IF PostReady(res) \/ GetReady(sse)
       THEN /\ isInitialized' = TRUE
            /\ reqs' = [reqs EXCEPT ![r] =
                          FirstPost([@ EXCEPT !.i = 0, !.probed = TRUE])]
       ELSE /\ isInitialized' = isInitialized
            /\ reqs' = [reqs EXCEPT ![r] =
                          IF @.i + 1 = maxRetries
                          THEN Done([@ EXCEPT !.i = @ + 1, !.probed = TRUE],
                                    CaughtResponse(@.kind))
                          ELSE [@ EXCEPT !.i = @ + 1, !.probed = TRUE]]
    /\ UNCHANGED <<up, mcpProcess, proc, killed>>
    /\ UNCHANGED <<sessionId, sseConnection, calls, shutdownSteps>>

\* The backend answers the first POST (or the fetch fails).
ForwardReply(r, rep) ==
    /\ up
    /\ reqs[r].pc = "fwd1"
    /\ ~rep.fail => SomeAlive
    /\ LET q == [reqs[r] EXCEPT !.reply1 = rep]
       IN  reqs' = [reqs EXCEPT ![r] =
             IF rep.fail THEN Done(q, CaughtResponse(q.kind))
             ELSE IF NeedsRetry(rep)
             THEN [q EXCEPT !.pc = "fwd2",
                            !.sent = Append(@, [verb |-> "POST", sid |-> "undef",
                                                env |-> q.env])]
             ELSE Done(q, RouteResponse(q.kind, q.env, ProxyResponse(q.env, rep)))]
    /\ UNCHANGED <<up, mcpProcess, isInitialized, proc, killed>>
    /\ UNCHANGED <<sessionId, sseConnection, calls, shutdownSteps>>

\* The retry's reply is dropped and the first reply is returned.
RetryReply_ReturnsFirst(r, rep) ==
    /\ up
    /\ reqs[r].pc = "fwd2"
    /\ ~rep.fail => SomeAlive
    /\ LET q == [reqs[r] EXCEPT !.reply2 = rep]
       IN  reqs' = [reqs EXCEPT ![r] =
             IF rep.fail THEN Done(q, CaughtResponse(q.kind))
             ELSE Done(q, RouteResponse(q.kind, q.env, PassThrough(q.reply1)))]
    /\ UNCHANGED <<up, mcpProcess, isInitialized, proc, killed>>
    /\ UNCHANGED <<sessionId, sseConnection, calls, shutdownSteps>>

\* The backend answers the retry (or the fetch fails).
RetryReply(r, rep) ==
    /\ up
    /\ reqs[r].pc = "fwd2"
    /\ ~rep.fail => SomeAlive
    /\ LET q == [reqs[r] EXCEPT !.reply2 = rep]
       IN  reqs' = [reqs EXCEPT ![r] =
             IF rep.fail THEN Done(q, CaughtResponse(q.kind))
             ELSE Done(q, RouteResponse(q.kind, q.env, PassThrough(rep)))]
    /\ UNCHANGED <<up, mcpProcess, isInitialized, proc, killed>>
    /\ UNCHANGED <<sessionId, sseConnection, calls, shutdownSteps>>

\* mcpProcess.on('exit'): a backend process ends; its handler clears
\* isInitialized.
ProcExit(p) ==
    /\ proc[p] = "alive"
    /\ proc' = [proc EXCEPT ![p] = "exited"]
    /\ isInitialized' = IF up THEN FALSE ELSE isInitialized
    /\ UNCHANGED <<up, mcpProcess, killed, reqs>>
    /\ UNCHANGED <<sessionId, sseConnection, calls, shutdownSteps>>

\* mcpProcess.on('error'): the process could not be started; its handler
\* clears isInitialized.
ProcError(p) ==
    /\ up
    /\ proc[p] = "alive"
    /\ proc' = [proc EXCEPT ![p] = "failed"]
    /\ isInitialized' = FALSE
    /\ UNCHANGED <<up, mcpProcess, killed, reqs>>
    /\ UNCHANGED <<sessionId, sseConnection, calls, shutdownSteps>>

\* reject(): settles the promise of a call unless it is settled already.
Reject(call) == IF call.st = "pending" THEN [call EXCEPT !.st = "rejected"] ELSE call

\* AbortController.abort() on the controller of call k (0: there is none).  A
\* fetch still connecting rejects, and the catch of its call clears that
\* call's timer and rejects it; an open stream stops with an AbortError, which
\* processChunk swallows; a finished one is left as it is.
Abort(cs, k) ==
    IF k = 0 THEN cs
    ELSE IF cs[k].stream = "connecting"
    THEN [cs EXCEPT ![k] = Reject([@ EXCEPT !.stream = "aborted", !.timer = FALSE])]
    ELSE IF cs[k].stream = "open"
    THEN [cs EXCEPT ![k].stream = "aborted"]
    ELSE cs

\* SIGTERM: shutdown() aborts the session stream and clears the session when
\* there is a stream handle, then kills the current process and clears the
\* handle, then process.exit(0) ends the gateway and every request in flight.
Shutdown ==
    /\ up
    /\ up' = FALSE
    /\ calls' = IF sseConnection # 0 THEN Abort(calls, sseConnection) ELSE calls
    /\ sessionId' = IF sseConnection # 0 THEN 0 ELSE sessionId
    /\ sseConnection' = 0
    /\ killed' = IF mcpProcess # 0 THEN killed \cup {mcpProcess} ELSE killed
    /\ mcpProcess' = 0
    /\ isInitialized' = IF mcpProcess # 0 THEN FALSE ELSE isInitialized
    /\ shutdownSteps' = (IF sseConnection # 0 THEN <<"abort_stream">> ELSE <<>>)
                        \o (IF mcpProcess # 0 THEN <<"kill_process">> ELSE <<>>)
                        \o <<"exit">>
    /\ reqs' = [r \in Slots |-> Idle]
    /\ UNCHANGED proc

\* ------------------------------------------------------ establishSession
\* establishSession is called; calls are numbered in the order they are made.
\* With a session and a stream handle it returns at once; otherwise it stores
\* a new AbortController, arms the 10 s timer and starts the GET.
EstablishSession(c) ==
    /\ up
    /\ calls[c].st = "none"
    /\ \A o \in 1..(c - 1) : calls[o].st # "none"
    /\ IF sessionId # 0 /\ sseConnection # 0
       THEN /\ calls' = [calls EXCEPT ![c].st = "resolved"]
            /\ UNCHANGED sseConnection
       ELSE /\ calls' = [calls EXCEPT ![c] =
                          [st |-> "pending", stream |-> "connecting", timer |-> TRUE]]
            /\ sseConnection' = c
    /\ UNCHANGED <<up, mcpProcess, isInitialized, proc, killed, reqs, sessionId,
                   shutdownSteps>>

\* The GET of call c settles: a response with a body ("ok"), a response that
\* is not ok or has no body ("refused"), or a rejected fetch ("failed").
FetchSettles(c, outcome) ==
    /\ up
    /\ calls[c].stream = "connecting"
    /\ calls' = [calls EXCEPT ![c] =
                   IF outcome = "ok" THEN [@ EXCEPT !.stream = "open"]
                   ELSE Reject([@ EXCEPT !.stream = outcome, !.timer = FALSE])]
    /\ UNCHANGED <<up, mcpProcess, isInitialized, proc, killed, reqs, sessionId,
                   sseConnection, shutdownSteps>>

\* processChunk of call c reads a chunk; hasId: the buffer now matches
\* "sessionId":"...".  The first match while no session is stored stores it,
\* clears the timer of the call and resolves it.
Chunk(c, hasId) ==
    /\ up
    /\ calls[c].stream = "open"
    /\ IF sessionId = 0 /\ hasId
       THEN /\ sessionId' = c
            /\ calls' = [calls EXCEPT ![c] =
                          [@ EXCEPT !.timer = FALSE,
                                    !.st = IF @ = "pending" THEN "resolved" ELSE @]]
       ELSE UNCHANGED <<sessionId, calls>>
    /\ UNCHANGED <<up, mcpProcess, isInitialized, proc, killed, reqs,
                   sseConnection, shutdownSteps>>

\* The stream of call c ends (done) or its read fails with an error that is
\* not an AbortError: the session and the stream handle are cleared.
StreamStops(c, how) ==
    /\ up
    /\ calls[c].stream = "open"
    /\ calls' = [calls EXCEPT ![c].stream = how]
    /\ sessionId' = 0
    /\ sseConnection' = 0
    /\ UNCHANGED <<up, mcpProcess, isInitialized, proc, killed, reqs, shutdownSteps>>

\* The 10 s timer of call c fires: this.sseConnection?.abort() aborts the
\* controller stored at that moment, then the call is rejected.
HandshakeTimeout(c) ==
    /\ up
    /\ calls[c].timer
    /\ calls' = LET aborted == Abort(calls, sseConnection)
                IN  [aborted EXCEPT ![c] = Reject([@ EXCEPT !.timer = FALSE])]
    /\ UNCHANGED <<up, mcpProcess, isInitialized, proc, killed, reqs, sessionId,
                   sseConnection, shutdownSteps>>

\* ------------------------------------------------- the other awaited calls
\* The backend answers the forwarded DELETE (or the fetch fails).
DeleteReply(r, rep) ==
    /\ up
    /\ reqs[r].pc = "del"
    /\ ~rep.fail => SomeAlive
    /\ reqs' = [reqs EXCEPT ![r] =
          IF rep.fail
          THEN Done(@, JsonError(500, "internal_error", "Failed to terminate session"))
          ELSE Done(@, PassThrough(rep))]
    /\ UNCHANGED <<up, mcpProcess, isInitialized, proc, killed>>
    /\ UNCHANGED <<sessionId, sseConnection, calls, shutdownSteps>>

\* handleCustomTool returns after the upstream API answered (or failed).
CustomDone(r, upstream) ==
    /\ up
    /\ reqs[r].pc = "custom"
    /\ reqs' = [reqs EXCEPT ![r] =
          Done([@ EXCEPT !.upstream = upstream],
               CustomToolResponse([method |-> @.env.name, id |-> @.env.id],
                                  upstream))]
    /\ UNCHANGED <<up, mcpProcess, isInitialized, proc, killed>>
    /\ UNCHANGED <<sessionId, sseConnection, calls, shutdownSteps>>

\* The response is delivered; the slot takes the next request.
Finish(r) ==
    /\ up
    /\ reqs[r].pc = "done"
    /\ reqs' = [reqs EXCEPT ![r] = Idle]
    /\ UNCHANGED <<up, mcpProcess, isInitialized, proc, killed>>
    /\ UNCHANGED <<sessionId, sseConnection, calls, shutdownSteps>>

\* ----------------------------------------------------------- environment
\* A result envelope of the backend for request id `id`.
EnvResult(id) == <<"{", "jsonrpc", "2.0">> \o Member("id", id) \o <<"result", "r", "}">>

\* An error envelope of the backend whose message is 'Invalid session ID'.
EnvInvalidSession(id) ==
    <<"{", "jsonrpc", "2.0">> \o Member("id", id)
    \o <<"error", "code", "-32000", "message", "q_ISID", "}">>

\* An error envelope of the backend for request id `id`.
EnvError(id) ==
    <<"{", "jsonrpc", "2.0">> \o Member("id", id)
    \o <<"error", "code", "-32602", "message", "q_txt", "}">>

\* A tool catalog of the backend.
Catalog(id, names) ==
    <<"{", "jsonrpc", "2.0">> \o Member("id", id)
    \o <<"result", "tools", "[">> \o names \o <<"]", "}">>

\* Bodies the backend may answer a request with id `id` with: nothing, plain
\* text (with and without surrounding whitespace), the invalid-session text,
\* a brace followed by text, envelopes that echo the id (a result, errors,
\* one after whitespace), catalogs.
BackendBodies(id) ==
    { <<>>, <<"txt">>, <<"sp", "txt", "sp">>, <<"ISID">>, <<"sp", "{", "txt">>,
      EnvResult(id), EnvInvalidSession(id), EnvError(id), <<"sp">> \o EnvError(id),
      Catalog(id, <<>>), Catalog(id, <<"search_dashboards", "query_datasource">>) }

BackendStatuses == {200, 400, 500}

BackendReplies(id) ==
    {Failure} \cup {Reply(st, b) : st \in BackendStatuses, b \in BackendBodies(id)}

\* Replies to the probes of waitForServer.
PostProbeReplies ==
    {Failure, Reply(200, <<>>), Reply(202, <<>>), Reply(400, <<"ISID">>),
     Reply(400, <<"txt">>), Reply(500, <<"txt">>)}

GetProbeReplies ==
    {Failure,
     [Reply(200, <<>>) EXCEPT !.ctype = <<"text/event-stream">>],
     [Reply(200, <<>>) EXCEPT !.ctype = <<"TEXT/EVENT-STREAM">>],
     [Reply(200, <<>>) EXCEPT !.ctype = <<"text/event-stream", "; charset=utf-8">>],
     [Reply(200, <<>>) EXCEPT !.ctype = <<"application/json">>],
     Reply(200, <<>>),
     [Reply(500, <<>>) EXCEPT !.ctype = <<"text/event-stream">>]}

\* Answers of the upstream Grafana API to a custom tool.
UpstreamReplies ==
    {Failure, Reply(200, <<"{", "results", "}">>), Reply(200, <<"txt">>),
     Reply(500, <<"txt">>)}

Good == <<"Bearer ", "good">>

Request(verb, path, accept, auth, env, sid) ==
    [verb |-> verb, path |-> path, accept |-> accept, auth |-> auth, env |-> env,
     sid |-> sid, args |-> NoArgs]

\* The envelope and session header of the inbound POSTs: every envelope with a
\* session header, and every session header with one envelope of each method.
Posted ==
    {<<e, "s1">> : e \in Envelopes}
    \cup {<<e, s>> \in Envelopes \X SidValues :
            e.id = "n7" /\ e.name \in {"undef", "search_dashboards"}}

\* Arguments of a query_datasource call: a query object with and without
\* members named like those the gateway sets, with and without a time range
\* and a cap.
QueryObjects ==
    { <<>>,
      << <<"expr", <<"up">>>> >>,
      << <<"datasource", <<"uid", "Y">>>>, <<"expr", <<"up">>>> >>,
      << <<"refId", <<"B">>>> >> }

TimeRanges == {NoTimeRange, [present |-> TRUE, from |-> "now-6h", to |-> "undef"]}

QueryArgs ==
    [datasourceUid : {"X"}, query : QueryObjects, timeRange : TimeRanges,
     maxDataPoints : {"undef", "0", "100"}]

\* The inbound requests.
Inputs ==
    {Request("GET", p, a, h, NoEnv, "undef") : p \in Paths, a \in BOOLEAN, h \in AuthHeaders}
    \cup {Request("DELETE", p, FALSE, h, NoEnv, s) :
            p \in {"/", "/tools"}, h \in AuthHeaders, s \in SidValues}
    \cup {Request("POST", p, FALSE, h, es[1], es[2]) :
            p \in {"/", "/tools"}, h \in AuthHeaders, es \in Posted}
    \cup {[Request("POST", "/", FALSE, Good,
                   [method |-> "tools/call", id |-> "n7", name |-> "query_datasource"],
                   "undef") EXCEPT !.args = a] : a \in QueryArgs}
    \cup {Request("POST", "/", FALSE, Good,
                  [method |-> "initialize", id |-> "n9007199254740993", name |-> "undef"],
                  "undef")}

\* The requests of concurrent traffic: one forwarded call with a session.
Traffic ==
    {Request("POST", "/", FALSE, Good,
             [method |-> "initialize", id |-> "n7", name |-> "undef"], "s1")}

TrafficReplies(id) ==
    {Failure, Reply(200, EnvResult(id)), Reply(400, <<"ISID">>)}

\* Concurrent callers with ids of their own, 0 and 1, and a backend that
\* answers a call with its result, a plain text error or a session error.
TrafficMixed ==
    {Request("POST", "/", FALSE, Good,
             [method |-> "initialize", id |-> id, name |-> "undef"], "s1") :
        id \in {"n0", "n1"}}

TrafficMixedReplies(id) ==
    {Reply(200, EnvResult(id)), Reply(500, <<"txt">>), Reply(400, <<"ISID">>)}

\* The probe outcomes of concurrent traffic, as pairs <<POST probe, GET
\* probe>>: both fail, the POST probe confirms, the GET probe confirms.
TrafficProbes ==
    { <<Failure, Failure>>,
      <<Reply(400, <<"ISID">>), Failure>>,
      <<Reply(500, <<"txt">>), [Reply(200, <<>>) EXCEPT !.ctype = <<"text/event-stream">>]>> }

\* ---------------------------------------------------------- specifications
\* Concurrent requests over a narrow vocabulary: the supervisor under
\* interleaving.
Next ==
    \/ \E r \in Slots, in \in Traffic : Receive(r, in)
    \/ \E r \in Slots : InitializeMcpServer(r)
    \/ \E r \in Slots, pr \in TrafficProbes : ProbeAttempt(r, pr[1], pr[2])
    \/ \E r \in Slots : \E rep \in TrafficReplies(reqs[r].env.id) : ForwardReply(r, rep)
    \/ \E r \in Slots : \E rep \in TrafficReplies(reqs[r].env.id) : RetryReply(r, rep)
    \/ \E r \in Slots : Finish(r)
    \/ \E p \in Pids : ProcExit(p)
    \/ \E p \in Pids : ProcError(p)
    \/ Shutdown

Spec == Init /\ [][Next]_vars

\* Concurrent requests of callers with different ids.
NextMixed ==
    \/ \E r \in Slots, in \in TrafficMixed : Receive(r, in)
    \/ \E r \in Slots : InitializeMcpServer(r)
    \/ \E r \in Slots, pr \in TrafficProbes : ProbeAttempt(r, pr[1], pr[2])
    \/ \E r \in Slots : \E rep \in TrafficMixedReplies(reqs[r].env.id) : ForwardReply(r, rep)
    \/ \E r \in Slots : \E rep \in TrafficMixedReplies(reqs[r].env.id) : RetryReply(r, rep)
    \/ \E r \in Slots : Finish(r)
    \/ \E p \in Pids : ProcExit(p)
    \/ \E p \in Pids : ProcError(p)
    \/ Shutdown

SpecMixed == Init /\ [][NextMixed]_vars

\* One request at a time over the whole vocabulary: routing, authentication
\* and the normalisation of replies.
NextBridge ==
    \/ \E in \in Inputs : Receive(1, in)
    \/ InitializeMcpServer(1)
    \/ \E res \in PostProbeReplies, sse \in GetProbeReplies : ProbeAttempt(1, res, sse)
    \/ \E rep \in BackendReplies(reqs[1].env.id) : ForwardReply(1, rep)
    \/ \E rep \in BackendReplies(reqs[1].env.id) : RetryReply(1, rep)
    \/ \E rep \in BackendReplies("undef") : DeleteReply(1, rep)
    \/ \E upstream \in UpstreamReplies : CustomDone(1, upstream)
    \/ Finish(1)
    \/ \E p \in Pids : ProcExit(p)
    \/ \E p \in Pids : ProcError(p)
    \/ Shutdown

SpecBridge == Init /\ [][NextBridge]_vars

\* One forwarded call at a time with every probe outcome: the readiness
\* cycle among process events and shutdown.
NextCycle ==
    \/ \E in \in Traffic : Receive(1, in)
    \/ InitializeMcpServer(1)
    \/ \E res \in PostProbeReplies, sse \in GetProbeReplies : ProbeAttempt(1, res, sse)
    \/ \E rep \in TrafficReplies(reqs[1].env.id) : ForwardReply(1, rep)
    \/ \E rep \in TrafficReplies(reqs[1].env.id) : RetryReply(1, rep)
    \/ Finish(1)
    \/ \E p \in Pids : ProcExit(p)
    \/ \E p \in Pids : ProcError(p)
    \/ Shutdown

\* Every fetch of waitForServer settles: it resolves, rejects, or is aborted
\* by its 2.5 s timer, and the sleep between attempts ends.
ProbesSettle ==
    WF_vars(\E res \in PostProbeReplies, sse \in GetProbeReplies :
                ProbeAttempt(1, res, sse))

SpecLive == Init /\ [][NextCycle]_vars /\ ProbesSettle

\* The steps the gateway takes by itself are taken: a handler that was entered
\* runs to its first await, and a computed response is written.  Nothing is
\* assumed of the replies of the backend to forwarded calls.
HandlersRun ==
    /\ WF_vars(InitializeMcpServer(1))
    /\ WF_vars(Finish(1))

SpecResponds == Init /\ [][NextCycle]_vars /\ ProbesSettle /\ HandlersRun

\* The session operations of GrafanaMcpHttpProxy under a caller of
\* establishSession, with the events of its streams and timers, and shutdown.
NextSession ==
    \/ \E c \in CallIds : EstablishSession(c)
    \/ \E c \in CallIds, outcome \in {"ok", "refused", "failed"} : FetchSettles(c, outcome)
    \/ \E c \in CallIds, hasId \in BOOLEAN : Chunk(c, hasId)
    \/ \E c \in CallIds, how \in {"ended", "errored"} : StreamStops(c, how)
    \/ \E c \in CallIds : HandshakeTimeout(c)
    \/ Shutdown

SpecSession == Init /\ [][NextSession]_vars

\* The gateway with both of its resources: one forwarded call at a time beside
\* a caller of establishSession, process events, stream events and shutdown.
NextGateway ==
    \/ NextCycle
    \/ NextSession

SpecGateway == Init /\ [][NextGateway]_vars

\* ------------------------------------------------------------------ claims
\* Headers of the vocabulary that do not authenticate: missing, not a Bearer
\* header, a Bearer token that fails validation.
RejectedHeaders == {NoHeader, <<"Basic ", "cred">>, <<"Bearer ", "expired">>}

\* A well-formed protocol envelope: a JSON object with a jsonrpc member and
\* exactly one of result and error.
WellFormedEnvelope(body) ==
    /\ ParsesAsJson(body)
    /\ Has(body, "jsonrpc")
    /\ Has(body, "result") # Has(body, "error")

\* The POSTs of the envelope among what a request sent to the backend.
PostsOf(q) == SelectSeq(q.sent, LAMBDA m : m.verb = "POST")

\* The text 'Invalid session ID' occurs in a body.
SaysInvalidSession(body) ==
    \E k \in 1..Len(body) : body[k] \in {"ISID", "q_ISID"}

\* C1: while a spawn-and-probe attempt is in flight (some request is inside
\* waitForServer), no step spawns another backend process: a concurrent
\* first-time demand awaits the attempt in flight.
C1_SingleFlightSpawn ==
    [][(\E r \in Slots : reqs[r].pc = "probing")
         => \A p \in Pids : proc[p] = "none" => proc'[p] = "none"]_vars

\* C2: in every reachable state at most one backend process spawned by the
\* gateway is alive.
C2_AtMostOneAlive == Cardinality({p \in Pids : proc[p] = "alive"}) <= 1

\* C3: a POST / whose Authorization header is missing, is not a Bearer header
\* or carries a token that fails validation is answered at once with 401 and a
\* body holding error and error_description; handling it spawns no process,
\* sends no probe, forwards nothing and runs no custom tool.
C3_RejectedPostIsTerminal ==
    \A r \in Slots :
        LET q == reqs[r]
        IN  (q.pc # "idle" /\ q.verb = "POST" /\ q.path = "/"
                /\ q.auth \in RejectedHeaders)
            => /\ q.pc = "done"
               /\ q.resp.status = 401
               /\ Has(q.resp.body, "error")
               /\ Has(q.resp.body, "error_description")
               /\ q.sent = <<>>
               /\ q.spawns = 0
               /\ ~q.probed
               /\ ~q.custom

\* A POST / with an expired Bearer token has been answered 401.
C3_Witness ==
    \E r \in Slots :
        /\ reqs[r].pc = "done"
        /\ reqs[r].verb = "POST"
        /\ reqs[r].path = "/"
        /\ reqs[r].auth = <<"Bearer ", "expired">>
        /\ reqs[r].env.method = "tools/call"
        /\ reqs[r].resp.status = 401

\* C4: every request the gateway sends to the backend on behalf of an inbound
\* request (a forwarded POST or a forwarded DELETE) comes after a successful
\* token validation of that inbound request.
C4_BackendOnlyAfterValidation ==
    \A r \in Slots : reqs[r].sent # <<>> => reqs[r].validated

\* C5: every request to the MCP base path that carries no valid bearer token,
\* a plain GET / included, is answered 401 with error and error_description.
C5_BasePathNeedsBearer ==
    \A r \in Slots :
        LET q == reqs[r]
        IN  (q.pc # "idle" /\ q.path = "/" /\ q.auth \in RejectedHeaders)
            => /\ q.pc = "done"
               /\ q.resp.status = 401
               /\ Has(q.resp.body, "error")
               /\ Has(q.resp.body, "error_description")

\* C6: every response envelope the gateway emits for an authenticated POST
\* carries the id of the request, whatever the id is (0, null, the empty
\* string, absent).
C6_ResponseEchoesId ==
    \A r \in Slots :
        LET q == reqs[r]
        IN  (q.pc = "done" /\ q.verb = "POST" /\ q.validated
                /\ Has(q.resp.body, "jsonrpc"))
            => Get(q.resp.body, "id") = q.env.id

\* The backend reply that decided the response of a forwarded request: the
\* retry's when there was one, else the first.
FinalReply(q) == IF Len(PostsOf(q)) = 2 THEN q.reply2 ELSE q.reply1

\* C7: whenever the backend's reply to a forwarded envelope (first attempt or
\* retry, any status) has a body that is not a well-formed envelope, the
\* caller gets 200 with a synthesized envelope: the request id, an error, the
\* raw body as data.
C7_NonEnvelopeReplyIsNormalised ==
    \A r \in Slots :
        LET q == reqs[r]
            rep == FinalReply(q)
        IN  (q.pc = "done" /\ q.kind = "plain" /\ PostsOf(q) # <<>>
                /\ rep # NoReply /\ ~rep.fail /\ rep.body # <<>>
                /\ ~WellFormedEnvelope(rep.body))
            => /\ q.resp.status = 200
               /\ WellFormedEnvelope(q.resp.body)
               /\ Has(q.resp.body, "error")
               /\ GetText(q.resp.body, "data") = Trim(rep.body)

\* C8: a non-2xx first reply with a non-empty plain text body T (not starting
\* with "{", not an invalid-session rejection) is answered 200 with
\* {jsonrpc, id: the request id, error: {code -32603, message 'Internal error',
\* data: T trimmed}}.
C8_PlainTextErrorIsWrapped ==
    \A r \in Slots :
        LET q == reqs[r]
            T == q.reply1.body
        IN  (q.pc = "done" /\ q.kind = "plain" /\ PostsOf(q) # <<>>
                /\ q.reply1 # NoReply /\ ~q.reply1.fail
                /\ (q.reply1.status < 200 \/ q.reply1.status > 299)
                /\ T # <<>>
                /\ (Trim(T) = <<>> \/ Head(Trim(T)) # "{")
                /\ ~(q.reply1.status = 400 /\ SaysInvalidSession(T)))
            => q.resp =
                 [status |-> 200,
                  body |-> <<"{", "jsonrpc", "2.0">> \o Member("id", q.env.id)
                           \o <<"error", "code", "-32603", "message",
                                "Internal error", "data">>
                           \o Quote(Trim(T)) \o <<"}">>]

\* C9: a forwarded envelope is POSTed to the backend at most twice; a second
\* POST exists only after the first was answered 400 with 'Invalid session ID',
\* carries the same envelope and no session header, and is the last one also
\* when it is rejected the same way.
C9_AtMostOneRetry ==
    \A r \in Slots :
        LET q == reqs[r]
            posts == PostsOf(q)
        IN  /\ Len(posts) <= 2
            /\ \A k \in 1..Len(posts) : posts[k].env = q.env
            /\ Len(posts) = 2
                 => /\ q.reply1.status = 400
                    /\ SaysInvalidSession(q.reply1.body)
                    /\ posts[2].sid = "undef"
            /\ (q.reply2 # NoReply) => (q.pc = "done" /\ Len(posts) = 2)

\* A retry was itself rejected as invalid session, and the request ended.
C9_Witness ==
    \E r \in Slots :
        /\ reqs[r].pc = "done"
        /\ Len(PostsOf(reqs[r])) = 2
        /\ reqs[r].sid = "s1"
        /\ PostsOf(reqs[r])[1].sid = "s1"
        /\ reqs[r].reply2.status = 400
        /\ SaysInvalidSession(reqs[r].reply2.body)

\* C10: after a session retry the caller gets the retry's outcome: its status
\* and body as they are (for tools/list, the catalog built from it), or the
\* gateway's failure response when the retry could not be sent; never the
\* first attempt's rejection.
C10_RetryOutcomeReturned ==
    \A r \in Slots :
        LET q == reqs[r]
        IN  (q.pc = "done" /\ Len(PostsOf(q)) = 2)
            => /\ q.reply2.fail => q.resp.status = 500
               /\ (~q.reply2.fail /\ q.kind = "plain")
                    => q.resp = [status |-> q.reply2.status, body |-> q.reply2.body]
               /\ (~q.reply2.fail /\ q.kind = "list")
                    => q.resp = ToolsListResponse(q.env, PassThrough(q.reply2))

\* A retry succeeded after an invalid-session rejection and the caller got
\* its result.
C10_Witness ==
    \E r \in Slots :
        /\ reqs[r].pc = "done"
        /\ reqs[r].kind = "plain"
        /\ Len(PostsOf(reqs[r])) = 2
        /\ reqs[r].reply1.status = 400
        /\ reqs[r].reply2 = Reply(200, EnvResult(reqs[r].env.id))
        /\ reqs[r].resp = [status |-> 200, body |-> EnvResult(reqs[r].env.id)]

\* The set of the entries of a list of names.
Names(s) == {s[k] : k \in 1..Len(s)}

\* The tool names the backend advertised in a reply: those of its catalog, none
\* when the reply holds no catalog.
AdvertisedBy(rep) == IF ParsesAsJson(rep.body) THEN ToolsOf(Trim(rep.body)) ELSE <<>>

\* C11: whenever the backend answered a tools/list, the response is a result
\* whose tool names are exactly the backend's tool names together with the two
\* local ones, also when the backend's catalog is empty or its reply holds no
\* catalog at all.
C11_CatalogIsUnion ==
    \A r \in Slots :
        LET q == reqs[r]
            rep == FinalReply(q)
        IN  (q.pc = "done" /\ q.kind = "list" /\ PostsOf(q) # <<>>
                /\ rep # NoReply /\ ~rep.fail)
            => /\ q.resp.status = 200
               /\ Has(q.resp.body, "result")
               /\ Names(ToolsOf(q.resp.body))
                    = Names(AdvertisedBy(rep)) \cup Names(CustomToolNames)

\* C12: no tools/list response lists a tool name twice, also when the backend
\* advertises a tool that has the name of a local tool.
C12_NoDuplicateNames ==
    \A r \in Slots :
        LET q == reqs[r]
            tools == ToolsOf(q.resp.body)
        IN  (q.pc = "done" /\ q.kind = "list")
            => \A j, k \in 1..Len(tools) : tools[j] = tools[k] => j = k

\* An authenticated tools/call on the base path that names a local tool.
LocalToolCall(q) ==
    /\ q.pc # "idle"
    /\ q.verb = "POST"
    /\ q.path = "/"
    /\ q.validated
    /\ q.env.method = "tools/call"
    /\ q.env.name \in {"query_datasource", "list_datasources_detailed"}

\* C13: an authenticated tools/call that names query_datasource or
\* list_datasources_detailed is run by the custom tool handler; handling it
\* spawns no backend process, sends no readiness probe and sends nothing to
\* the backend, whatever state the backend is in.
C13_LocalToolBypassesBackend ==
    \A r \in Slots :
        LET q == reqs[r]
        IN  LocalToolCall(q)
            => /\ q.custom
               /\ q.upsent # NoUpstream
               /\ q.spawns = 0
               /\ ~q.probed
               /\ q.sent = <<>>
               /\ q.reply1 = NoReply

\* list_datasources_detailed was answered with a result while no backend
\* process had ever been spawned.
C13_Witness ==
    \E r \in Slots :
        /\ LocalToolCall(reqs[r])
        /\ reqs[r].pc = "done"
        /\ reqs[r].env.name = "list_datasources_detailed"
        /\ Has(reqs[r].resp.body, "result")
        /\ mcpProcess = 0
        /\ \A p \in Pids : proc[p] = "none"

\* C14: an authenticated POST whose method is itself query_datasource or
\* list_datasources_detailed is handled by the custom tool handler (and so
\* answered 200 with a result when the Grafana API answers), not forwarded.
C14_DirectMethodIsLocal ==
    \A r \in Slots :
        LET q == reqs[r]
        IN  (q.pc # "idle" /\ q.verb = "POST" /\ q.path = "/" /\ q.validated
                /\ q.env.method \in {"query_datasource", "list_datasources_detailed"})
            => /\ q.custom
               /\ q.sent = <<>>

\* The upstream call of a custom tool failed: a non-2xx status, or the fetch
\* threw.
UpstreamFailed(q) ==
    /\ q.pc = "done"
    /\ q.kind = "custom"
    /\ q.upstream.fail \/ ~Ok(q.upstream.status)

\* C15: when the upstream call of a local tool fails, the caller gets 200
\* with an envelope that carries the request id and an error, never a result
\* and never a transport error; for a non-2xx answer the error message holds
\* the upstream status and body.
C15_UpstreamFailureIsToolError ==
    \A r \in Slots :
        LET q == reqs[r]
        IN  UpstreamFailed(q)
            => /\ q.resp.status = 200
               /\ Has(q.resp.body, "jsonrpc")
               /\ Get(q.resp.body, "id") = q.env.id
               /\ Has(q.resp.body, "error")
               /\ ~Has(q.resp.body, "result")
               /\ ~q.upstream.fail
                    => /\ Includes(q.resp.body, StatusTok(q.upstream.status))
                       /\ GetText(q.resp.body, StatusTok(q.upstream.status))
                            = q.upstream.body

\* The Grafana API answered 500 with a text to a call with id 0, and so did
\* a fetch that threw.
C15_Witness ==
    \E r \in Slots :
        /\ UpstreamFailed(reqs[r])
        /\ reqs[r].env.id = "n0"
        /\ reqs[r].upstream = Reply(500, <<"txt">>)
        /\ reqs[r].resp.status = 200
        /\ Get(reqs[r].resp.body, "message") = FailurePrefix(reqs[r].env.name)

\* C16: the request query_datasource sends to the bulk query endpoint holds
\* exactly one query, whose datasource.uid is the datasourceUid argument and
\* whose refId is 'A', whatever members the caller's query object has.
C16_OneQueryKeyedToUid ==
    \A r \in Slots :
        LET q == reqs[r]
        IN  (q.custom /\ q.env.name = "query_datasource")
            => /\ q.upsent.url = "/api/ds/query"
               /\ Len(q.upsent.queries) = 1
               /\ Lookup(q.upsent.queries[1], "datasource")
                    = Member("uid", q.args.datasourceUid)
               /\ Lookup(q.upsent.queries[1], "refId") = <<"A">>

\* A request's readiness cycle gave up: waitForServer threw after its last
\* attempt.
GaveUp(q) == q.pc = "done" /\ q.i = maxRetries

\* C17: a readiness cycle ends.  While it runs fewer than 10 attempts have
\* failed; it ends ready at the first attempt a probe confirms, or fails after
\* exactly 10 failed attempts; there is no 11th attempt.
C17_ReadinessCycleEnds ==
    /\ [](\A r \in Slots :
            /\ reqs[r].i <= maxRetries
            /\ reqs[r].pc = "probing" => reqs[r].i < maxRetries
            /\ reqs[r].pc \in {"fwd1", "fwd2"} => reqs[r].i = 0)
    /\ [][\A r \in Slots :
            (reqs[r].pc = "probing" /\ reqs'[r].pc = "fwd1") => isInitialized']_vars
    /\ \A r \in Slots : (reqs[r].pc = "probing") ~> (reqs[r].pc # "probing")

\* A cycle failed after 10 attempts, in a gateway whose earlier cycle had
\* ended ready with a process that exited since.
C17_Witness ==
    \E r \in Slots :
        /\ GaveUp(reqs[r])
        /\ reqs[r].probed
        /\ reqs[r].spawns = 1
        /\ reqs[r].resp.status = 500
        /\ mcpProcess = 2
        /\ proc[1] = "exited"

\* C18: a request whose readiness cycle exhausted its attempts is answered
\* with a 5xx status and an error, and nothing of it was forwarded.
C18_UnreadyBackendIs5xx ==
    \A r \in Slots :
        LET q == reqs[r]
        IN  GaveUp(q)
            => /\ q.resp.status >= 500
               /\ q.resp.status <= 599
               /\ Has(q.resp.body, "error")
               /\ q.sent = <<>>
               /\ q.reply1 = NoReply

\* A tools/list gave up after 10 attempts and was answered 500.
C18_Witness ==
    \E r \in Slots :
        /\ GaveUp(reqs[r])
        /\ reqs[r].kind = "list"
        /\ reqs[r].spawns = 1
        /\ reqs[r].resp.status = 500

\* The supervisor is Ready and the process its handle names is alive.
ReadyAndAlive ==
    /\ up
    /\ isInitialized
    /\ mcpProcess # 0
    /\ mcpProcess \notin killed
    /\ proc[mcpProcess] = "alive"

\* C19: when the supervisor is Ready and its process is alive, a request that
\* demands the backend is forwarded at once: the step spawns no process,
\* leaves the handle alone and starts no readiness probing.
C19_ReadyDemandReturnsAtOnce ==
    [][\A r \in Slots :
         (ReadyAndAlive /\ reqs[r].pc = "ensure" /\ reqs'[r].pc \notin {"ensure", "idle"})
         => /\ reqs'[r].pc = "fwd1"
            /\ reqs'[r].spawns = 0
            /\ ~reqs'[r].probed
            /\ proc' = proc
            /\ mcpProcess' = mcpProcess]_vars

\* A request was forwarded without a spawn or a probe of its own, while
\* another request, which arrived later still, waits to be served.
C19_Witness ==
    \E r, o \in Slots :
        /\ ReadyAndAlive
        /\ reqs[r].pc = "fwd1"
        /\ reqs[r].spawns = 0
        /\ ~reqs[r].probed
        /\ reqs[o].pc = "ensure"

\* C20: once the backend process of the handle has exited, nothing is
\* forwarded before a fresh spawn: a request that demands the backend is
\* forwarded without a spawn of its own only while that process is alive.
C20_ExitForcesFreshSpawn ==
    [][\A r \in Slots :
         (reqs[r].pc = "ensure" /\ reqs'[r].pc = "fwd1")
         => proc[mcpProcess] = "alive"]_vars

\* C21: when a readiness cycle has given up, the supervisor is Stopped: it
\* is not Ready, and the process the cycle spawned (the one of the handle, with
\* one request at a time) is not left alive.
C21_FailedCycleStops ==
    \A r \in Slots :
        LET q == reqs[r]
        IN  (up /\ GaveUp(q) /\ q.spawns = 1 /\ mcpProcess # 0)
            => /\ ~isInitialized
               /\ proc[mcpProcess] # "alive"

\* C22: a stored session identifier implies that the stream it was read from
\* is still open and is the one the stream handle names: not ended, errored,
\* aborted or replaced.
C22_SessionOnlyWhileStreamOpen ==
    sessionId # 0
        => /\ calls[sessionId].stream = "open"
           /\ sseConnection = sessionId

\* C23: a POST is forwarded to the backend with a session identifier only
\* after a session handshake of the gateway: establishSession was called and
\* the gateway holds a session.
C23_HandshakeBeforeSessionBoundPost ==
    \A r \in Slots :
        (\E k \in 1..Len(reqs[r].sent) :
            reqs[r].sent[k].verb = "POST" /\ reqs[r].sent[k].sid # "undef")
        => /\ \E c \in CallIds : calls[c].st # "none"
           /\ sessionId # 0

\* C24: at most one handshake is in flight: no two calls of establishSession
\* have each a connection of their own while pending.
C24_OneHandshakeInFlight ==
    Cardinality({c \in CallIds :
                    calls[c].st = "pending"
                    /\ calls[c].stream \in {"connecting", "open"}}) <= 1

\* C25: once the gateway has shut down, it closed the session stream before it
\* terminated the backend process and exited last, and the session id, the
\* stream handle and the process handle are cleared and the supervisor is not
\* Ready.
C25_ShutdownOrderAndCleared ==
    ~up => /\ shutdownSteps \in {<<"exit">>,
                               <<"abort_stream", "exit">>,
                               <<"kill_process", "exit">>,
                               <<"abort_stream", "kill_process", "exit">>}
           /\ sessionId = 0
           /\ sseConnection = 0
           /\ mcpProcess = 0
           /\ ~isInitialized

\* C26: once the gateway has shut down, every backend process it spawned that
\* has not exited has been sent a termination signal.
C26_NoOrphanAfterShutdown ==
    ~up => \A p \in Pids : proc[p] = "alive" => p \in killed

\* C27: every request the gateway has taken in is answered at last, whatever
\* the backend does: each operation it waits on is bounded.
C27_EveryRequestIsAnswered ==
    \A r \in Slots :
        (reqs[r].pc \notin {"idle", "done"}) ~> (reqs[r].pc \in {"idle", "done"})

\* C28: responses are not swapped.  The response of a forwarded request that
\* was answered while a request with another id was in flight comes from the
\* reply to its own envelope (the reply itself, or the error built from its
\* text) and carries the id of its own envelope.
C28_ResponsesNotSwapped ==
    \A r \in Slots :
        LET q == reqs[r]
            rep == FinalReply(q)
        IN  (/\ q.pc = "done" /\ q.kind = "plain" /\ PostsOf(q) # <<>>
             /\ rep # NoReply /\ ~rep.fail
             /\ \E o \in Slots \ {r} :
                    reqs[o].pc \notin {"idle", "done"} /\ reqs[o].env.id # q.env.id)
            => /\ \A k \in 1..Len(PostsOf(q)) : PostsOf(q)[k].env = q.env
               /\ \/ q.resp.body = rep.body
                  \/ GetText(q.resp.body, "data") = Trim(rep.body)
               /\ Has(q.resp.body, "jsonrpc") => Get(q.resp.body, "id") = q.env.id

\* C29: the backend process is created lazily.  A process is spawned only by
\* the handler of an authenticated POST that is routed to the backend, never
\* by another handler or a rejected request; and a demand made after the
\* process of the handle has exited spawns a new one.
C29_LazySpawn ==
    [][/\ (\E p \in Pids : proc[p] = "none" /\ proc'[p] = "alive")
           => \E r \in Slots :
                 /\ reqs[r].verb = "POST" /\ reqs[r].validated
                 /\ reqs[r].kind \in {"plain", "list"}
                 /\ reqs[r].pc = "ensure" /\ reqs'[r].pc = "probing"
       /\ \A r \in Slots :
             (/\ reqs[r].pc = "ensure" /\ reqs'[r].pc # "ensure" /\ up'
              /\ mcpProcess # 0 /\ proc[mcpProcess] = "exited")
             => reqs'[r].spawns = reqs[r].spawns + 1]_vars

\* C30: GET /health and GET /.well-known/oauth-protected-resource are answered
\* at once with 200 by their own handlers, whatever the Authorization header
\* and whatever the state of the backend, with no token validated, no process
\* spawned and nothing sent to the backend.
C30_HealthAndDiscoveryAreOpen ==
    \A r \in Slots :
        LET q == reqs[r]
        IN  (q.pc # "idle" /\ q.verb = "GET" /\ SkipsAuth(q.path))
            => /\ q.pc = "done"
               /\ q.h \in {"health", "wellknown"}
               /\ q.resp.status = 200
               /\ ~q.validated
               /\ q.spawns = 0
               /\ q.sent = <<>>

\* GET /health without an Authorization header is answered 200 by a gateway
\* that is not Ready and whose backend process has exited.
C30_Witness ==
    \E r \in Slots :
        /\ reqs[r].pc = "done" /\ reqs[r].verb = "GET" /\ reqs[r].path = "/health"
        /\ reqs[r].auth = NoHeader
        /\ reqs[r].resp.status = 200
        /\ ~isInitialized
        /\ mcpProcess # 0 /\ proc[mcpProcess] = "exited"

\* What handleMcpRequest returned for a forwarded request that got a reply.
ProxyResult(q) ==
    IF Len(PostsOf(q)) = 2 THEN PassThrough(q.reply2) ELSE ProxyResponse(q.env, q.reply1)

\* The response of a request is an envelope the gateway built itself: the
\* answer of a local tool, the error converted from a plain text reply, or
\* the merged catalog of tools/list.
BuiltByGateway(q) ==
    /\ q.pc = "done" /\ q.validated
    /\ \/ q.kind = "custom"
       \/ /\ q.kind \in {"plain", "list"} /\ Len(PostsOf(q)) = 1
          /\ q.reply1 # NoReply /\ ~q.reply1.fail /\ ShouldSynthesize(q.reply1)
       \/ /\ q.kind = "list" /\ PostsOf(q) # <<>>
          /\ FinalReply(q) # NoReply /\ ~FinalReply(q).fail
          /\ Has(GrafanaData(ProxyResult(q).body), "result")
          /\ Has(GrafanaData(ProxyResult(q).body), "tools")

\* C31: every envelope the gateway builds itself has exactly one of the
\* members result and error.
C31_ExactlyOneOfResultAndError ==
    \A r \in Slots :
        BuiltByGateway(reqs[r])
        => /\ Has(reqs[r].resp.body, "jsonrpc")
           /\ Has(reqs[r].resp.body, "result") # Has(reqs[r].resp.body, "error")

\* A plain text 500 of the backend was converted into an error envelope.
C31_Witness ==
    \E r \in Slots :
        /\ BuiltByGateway(reqs[r]) /\ reqs[r].kind = "plain"
        /\ reqs[r].reply1.status = 500 /\ reqs[r].reply1.body = <<"txt">>
        /\ Has(reqs[r].resp.body, "error") /\ ~Has(reqs[r].resp.body, "result")

\* C32: validate succeeds for every well-formed token within its validity
\* window whose signature verifies and whose issuer and audience match, and
\* the request is authenticated; for every expired or signature-mismatched
\* token it fails with the corresponding kind, Expired for an expired one and
\* SignatureInvalid for a mismatched one, and the request is rejected.
C32_ValidateByTokenFacts ==
    \A r \in Slots :
        LET q == reqs[r]
            t == TokenOf(q.auth)
            f == TokenFacts(t)
        IN  (q.pc # "idle" /\ q.verb = "POST" /\ q.path = "/"
                /\ ~MissingOrMalformed(q.auth) /\ f.wellFormed)
            => /\ (f.signatureOk /\ ~f.expired /\ f.issuerOk /\ f.audienceOk)
                  => (Validate(t) = {"ok"} /\ q.validated)
               /\ (f.expired \/ ~f.signatureOk)
                  => /\ Validate(t) # {}
                     /\ \A k \in Validate(t) :
                            \/ k = "Expired" /\ f.expired
                            \/ k = "SignatureInvalid" /\ ~f.signatureOk
                     /\ ~q.validated /\ q.pc = "done" /\ q.resp.status = 401

\* A POST with an expired token whose signature verifies was rejected, the
\* validator failing with kind Expired.
C32_Witness ==
    \E r \in Slots :
        /\ reqs[r].pc = "done" /\ reqs[r].verb = "POST" /\ reqs[r].path = "/"
        /\ reqs[r].auth = <<"Bearer ", "expired">>
        /\ Validate(TokenOf(reqs[r].auth)) = {"Expired"}
        /\ reqs[r].resp.status = 401

\* C33: a readiness attempt declares the backend ready exactly when the POST
\* probe returns 2xx, or returns 400 with 'Invalid session ID' in its body,
\* or the GET probe returns 200 with an event-stream content type; with any
\* other outcomes of the two probes the attempt is counted as failed and the
\* loop goes on.
C33_ReadyExactlyWhenProbeConfirms ==
    [][\A r \in Slots : \A res \in PostProbeReplies, sse \in GetProbeReplies :
         ProbeAttempt(r, res, sse)
         => LET confirmed ==
                    \/ ~res.fail /\ res.status \in 200..299
                    \/ ~res.fail /\ res.status = 400
                          /\ (\E k \in 1..Len(res.body) : res.body[k] \in {"ISID", "q_ISID"})
                    \/ ~sse.fail /\ sse.status = 200
                          /\ (\E k \in 1..Len(sse.ctype) :
                                 sse.ctype[k] \in {"text/event-stream", "TEXT/EVENT-STREAM"})
            IN  IF confirmed
                THEN reqs'[r].pc = "fwd1" /\ isInitialized'
                ELSE /\ reqs'[r].i = reqs[r].i + 1
                     /\ reqs'[r].pc \in {"probing", "done"}
                     /\ reqs'[r].pc = "done" <=> reqs'[r].i = maxRetries
                     /\ isInitialized' = isInitialized]_vars

\* An attempt of the request that spawned the backend confirmed it.
C33_Witness ==
    \E r \in Slots :
        /\ reqs[r].pc = "fwd1" /\ reqs[r].probed /\ reqs[r].spawns = 1 /\ isInitialized

\* C34: a reply of the backend to a forwarded call whose body is a well-formed
\* envelope, a result or an error, and that is not an invalid-session
\* rejection, reaches the caller with the status and the body of the backend.
C34_EnvelopePassesThrough ==
    \A r \in Slots :
        LET q == reqs[r]
            rep == FinalReply(q)
        IN  (/\ q.pc = "done" /\ q.kind = "plain" /\ PostsOf(q) # <<>>
             /\ rep # NoReply /\ ~rep.fail
             /\ WellFormedEnvelope(rep.body)
             /\ ~(rep.status = 400 /\ SaysInvalidSession(rep.body)))
            => q.resp = [status |-> rep.status, body |-> rep.body]

\* An error envelope sent after whitespace with status 500 was returned as it
\* was.
C34_Witness ==
    \E r \in Slots :
        /\ reqs[r].pc = "done" /\ reqs[r].kind = "plain"
        /\ reqs[r].reply1 = Reply(500, <<"sp">> \o EnvError(reqs[r].env.id))
        /\ reqs[r].resp = [status |-> 500, body |-> <<"sp">> \o EnvError(reqs[r].env.id)]

\* C35: the first POST the gateway sends to the backend for a forwarded
\* request carries the session header exactly when the inbound request had a
\* non-empty one, with its value, and its body is the inbound envelope
\* unchanged; a request without a session is forwarded as well.
C35_FirstPostIsTheInboundEnvelope ==
    \A r \in Slots :
        LET q == reqs[r]
        IN  /\ PostsOf(q) # <<>>
               => /\ PostsOf(q)[1].sid = (IF q.sid \in {"undef", ""} THEN "undef" ELSE q.sid)
                  /\ PostsOf(q)[1].env = q.inbound
            /\ (q.validated /\ q.kind \in {"plain", "list"} /\ q.pc \in {"fwd1", "fwd2"})
               => PostsOf(q) # <<>>

\* The request of slot r as it arrived, before its handler ran.
Arrived(q) ==
    [Idle EXCEPT !.verb = q.verb, !.path = q.path, !.accept = q.accept,
                 !.auth = q.auth, !.inbound = q.inbound, !.env = q.env,
                 !.sid = q.sid, !.h = q.h, !.args = q.args]

\* C36: in http mode DELETE / is forwarded as one DELETE that carries the
\* session header exactly when the inbound request had a non-empty one, with
\* no spawn and no probe; with no backend process to reach the answer is 500;
\* in another transport mode the answer is 400 not_supported and nothing is
\* forwarded.
C36_DeleteIsForwardedWithoutSpawn ==
    \A r \in Slots :
        LET q == reqs[r]
        IN  (q.pc # "idle" /\ q.verb = "DELETE" /\ q.path = "/")
            => /\ q.sent = <<[verb |-> "DELETE",
                              sid |-> IF q.sid \in {"undef", ""} THEN "undef" ELSE q.sid,
                              env |-> NoEnv]>>
               /\ q.spawns = 0 /\ ~q.probed /\ q.pc \in {"del", "done"}
               /\ (q.pc = "done" /\ \A p \in Pids : proc[p] = "none")
                  => q.resp = JsonError(500, "internal_error", "Failed to terminate session")
               /\ \A t \in OtherTransports :
                     LET o == DeleteRootIn(t, Arrived(q))
                     IN  /\ o.pc = "done" /\ o.sent = <<>>
                         /\ o.resp = [status |-> 400,
                                      body |-> <<"{", "error", "not_supported", "}">>]

\* A DELETE with a session header was forwarded to a gateway without a
\* backend process and answered 500.
C36_Witness ==
    \E r \in Slots :
        /\ reqs[r].pc = "done" /\ reqs[r].verb = "DELETE" /\ reqs[r].sid = "s1"
        /\ reqs[r].sent = <<[verb |-> "DELETE", sid |-> "s1", env |-> NoEnv]>>
        /\ reqs[r].resp.status = 500
        /\ \A p \in Pids : proc[p] = "none"

\* C37: for tools/list, a backend reply that does not parse as JSON is
\* answered 200 with a result that lists exactly the two local tools and
\* carries the request id; a reply that parses but has no result.tools is
\* returned as parsed, without the local tools.
C37_ListFallbacks ==
    \A r \in Slots :
        LET q == reqs[r]
            rep == FinalReply(q)
        IN  (q.pc = "done" /\ q.kind = "list" /\ PostsOf(q) # <<>>
                /\ rep # NoReply /\ ~rep.fail)
            => /\ ~ParsesAsJson(rep.body)
                  => q.resp =
                       [status |-> 200,
                        body |-> <<"{", "jsonrpc", "2.0">>
                                 \o Member("id", q.env.id)
                                 \o <<"result", "tools", "[">>
                                 \o CustomToolNames \o <<"]", "}">>]
               /\ (ParsesAsJson(rep.body)
                     /\ ~(Has(Trim(rep.body), "result")
                            /\ Has(Trim(rep.body), "tools")))
                  => q.resp = [status |-> 200, body |-> Trim(rep.body)]

\* C38: whenever the supervisor is Ready (isInitialized with a handle), the
\* process the handle names has not exited; this includes an exit that
\* arrives during the readiness probes and probes answered by another
\* process on the same port.
C38_ReadyImpliesNotExited ==
    (isInitialized /\ mcpProcess # 0) => proc[mcpProcess] # "exited"

\* C39: the exit or error event of a backend process that is not the one of
\* the current handle (replaced by a later spawn, or killed by shutdown)
\* leaves the readiness of the current process as it is: Ready is not
\* cleared, so the next request does not spawn again.
C39_StaleExitLeavesReadiness ==
    [][\A p \in Pids :
         (p # mcpProcess /\ (ProcExit(p) \/ ProcError(p)))
         => isInitialized' = isInitialized]_vars

====
